---- MODULE Spec2Model ----
(***************************************************************************)
(* Model of tpep_theory.py: the TPEPAnalyzer class.                        *)
(*                                                                         *)
(* One analyzer instance is constructed (TPEPAnalyzer.__init__) and then   *)
(* read through its properties and report().  __init__ is followed line by *)
(* line: the position inside it is pc, the locals of the three helper      *)
(* methods are variables, and the attributes of the instance are n,        *)
(* self_factors, phi_val and sigma_val, with attrs the set of attributes   *)
(* already assigned.                                                       *)
(*                                                                         *)
(* Numbers: Python integers are unbounded, and every value met within the  *)
(* bounds below stays far under 2^31.  A float produced by int / int is    *)
(* modelled by the exact quotient, kept as a fraction in lowest terms      *)
(* (two quotients of integers below 2^26 are the same double exactly when  *)
(* they are the same fraction).                                            *)
(***************************************************************************)
EXTENDS Integers, FiniteSets, TLC

VARIABLES pc, n, attrs, self_factors, phi_val, sigma_val,
          factors, d, temp, result, total, todo, caller, ret, seen, repeat

vars == <<pc, n, attrs, self_factors, phi_val, sigma_val,
          factors, d, temp, result, total, todo, caller, ret, seen, repeat>>

\* ---------------------------------------------------------------- bounds
MaxN == 64
MaxNeg == 2

\* the three integers analysed by the demonstration driver
DemoInputs == {8128, 945, 15015}

Inputs == ((0 - MaxNeg)..MaxN) \cup DemoInputs

\* ------------------------------------------------------------- arithmetic
RECURSIVE GCD(_, _)
GCD(a, b) == IF b = 0 THEN a ELSE GCD(b, a % b)

Max(a, b) == IF a >= b THEN a ELSE b

Abs(a) == IF a >= 0 THEN a ELSE 0 - a

EmptyDict == [x \in {} |-> 0]

NoValue == [exc |-> "none", num |-> 0, den |-> 1]

\* a / b on Python ints: ZeroDivisionError when b = 0, else the quotient
TrueDiv(a, b) ==
    IF b = 0 THEN [exc |-> "ZeroDivisionError", num |-> 0, den |-> 1]
    ELSE LET g == GCD(a, b) IN [exc |-> "none", num |-> a \div g, den |-> b \div g]

\* x + y on two floats; an exception in either operand propagates
FloatAdd(x, y) ==
    IF x.exc # "none" THEN x
    ELSE IF y.exc # "none" THEN y
    ELSE TrueDiv(x.num * y.den + y.num * x.den, x.den * y.den)

\* ------------------------------------------------------ _get_prime_factors
StartD == 2

\* while d * d <= temp
LoopCondStrict(dd, t) == dd * dd < t
LoopCond(dd, t) == dd * dd <= t

\* if temp > 1
TailCondTwo(t) == t > 2
TailCond(t) == t > 1

\* factors[k] = factors.get(k, 0) + 1
DictIncrReset(F, k) == [x \in DOMAIN F \cup {k} |-> IF x = k THEN 1 ELSE F[x]]
DictIncr(F, k) ==
    [x \in DOMAIN F \cup {k} |->
        IF x = k THEN (IF k \in DOMAIN F THEN F[k] ELSE 0) + 1 ELSE F[x]]

RECURSIVE FactorOuter(_, _, _)
RECURSIVE FactorInner(_, _, _)
FactorOuter(F, dd, t) ==
    IF LoopCond(dd, t) THEN FactorInner(F, dd, t)
    ELSE IF TailCond(t) THEN DictIncr(F, t) ELSE F
FactorInner(F, dd, t) ==
    IF t % dd = 0 THEN FactorInner(DictIncr(F, dd), dd, t \div dd)
    ELSE FactorOuter(F, dd + 1, t)

GetPrimeFactors(m) == FactorOuter(EmptyDict, StartD, m)

\* ----------------------------------------------------------- _calculate_phi
PhiStartOne(m) == 1
PhiStart(m) == m

PhiUpdateNoMul(r, p) == r \div p
PhiUpdateDivFirst(r, p) == ((p - 1) \div p) * r
PhiUpdate(r, p) == (r * (p - 1)) \div p

MinOf(S) == CHOOSE x \in S : \A y \in S : x <= y

\* the loop over self._factors.keys(), in the dict's insertion order, which
\* for the dict built by _get_prime_factors is ascending
RECURSIVE PhiLoop(_, _)
PhiLoop(r, keys) ==
    IF keys = {} THEN r
    ELSE LET p == MinOf(keys) IN PhiLoop(PhiUpdate(r, p), keys \ {p})

CalculatePhi(m, F) == PhiLoop(PhiStart(m), DOMAIN F)

\* --------------------------------------------------------- _calculate_sigma
SigmaTermShort(p, a) == (p^a - 1) \div (p - 1)
SigmaTerm(p, a) == (p^(a + 1) - 1) \div (p - 1)

RECURSIVE SigmaLoop(_, _, _)
SigmaLoop(t, F, keys) ==
    IF keys = {} THEN t
    ELSE LET p == MinOf(keys) IN SigmaLoop(t * SigmaTerm(p, F[p]), F, keys \ {p})

CalculateSigma(F) == SigmaLoop(1, F, DOMAIN F)

\* ------------------------------------------------------------------ report
StabilityTarget == 4
RelTolInv == 1000000000

\* math.isclose(x, target, rel_tol=1e-9) for x = num / den, den > 0:
\* |x - target| <= rel_tol * max(|x|, |target|), cleared of denominators
IsCloseLoose(x, target) ==
    Abs(x.num - target * x.den) * 100 <= Max(Abs(x.num), target * x.den)
IsClose(x, target) ==
    Abs(x.num - target * x.den) <= Max(Abs(x.num), target * x.den) \div RelTolInv

Parity(m) == IF m % 2 # 0 THEN "ODD" ELSE "EVEN"

Status(stable) == IF stable THEN "PERFECT (Stable)" ELSE "IMPERFECT (Unstable)"

Metrics == {"totient_density", "perfection_ratio", "tpep_ratio", "mirror_gap", "report"}

AllAttrs == {"n", "_factors", "phi_val", "sigma_val"}

\* -------------------------------------------------------------------- Init
Init ==
    /\ pc = "new"
    /\ n = 0
    /\ attrs = {}
    /\ self_factors = EmptyDict
    /\ phi_val = 0
    /\ sigma_val = 0
    /\ factors = EmptyDict
    /\ d = 0
    /\ temp = 0
    /\ result = 0
    /\ total = 0
    /\ todo = {}
    /\ caller = "none"
    /\ ret = [name |-> "none", value |-> NoValue]
    /\ seen = [m \in Metrics |-> {}]
    /\ repeat = FALSE

\* ---------------------------------------------------------------- __init__
\* self.n = n; if n < 1: raise ValueError; otherwise enter
\* _get_prime_factors(n): factors = {}, d = 2, temp = n
ValidZero(m) == m >= 0
Valid(m) == m >= 1

Construct ==
    /\ pc = "new"
    /\ \E m \in Inputs :
        /\ n' = m
        /\ attrs' = {"n"}
        /\ IF ~Valid(m)
           THEN /\ pc' = "raised"
                /\ caller' = "ValueError"
                /\ UNCHANGED <<factors, d, temp>>
           ELSE /\ pc' = "outer"
                /\ factors' = EmptyDict
                /\ d' = StartD
                /\ temp' = m
                /\ UNCHANGED caller
    /\ UNCHANGED <<self_factors, phi_val, sigma_val, result, total, todo, ret, seen, repeat>>

\* the test of `while d * d <= temp`
OuterTest ==
    /\ pc = "outer"
    /\ pc' = IF LoopCond(d, temp) THEN "inner" ELSE "tail"
    /\ UNCHANGED <<n, attrs, self_factors, phi_val, sigma_val, factors, d, temp,
                   result, total, todo, caller, ret, seen, repeat>>

\* the test of `while temp % d == 0` with its body, or `d += 1` on exit
InnerTest ==
    /\ pc = "inner"
    /\ IF temp % d = 0
       THEN /\ factors' = DictIncr(factors, d)
            /\ temp' = temp \div d
            /\ UNCHANGED <<pc, d>>
       ELSE /\ d' = d + 1
            /\ pc' = "outer"
            /\ UNCHANGED <<factors, temp>>
    /\ UNCHANGED <<n, attrs, self_factors, phi_val, sigma_val,
                   result, total, todo, caller, ret, seen, repeat>>

\* if temp > 1: factors[temp] = factors.get(temp, 0) + 1
TailRecord ==
    /\ pc = "tail"
    /\ factors' = IF TailCond(temp) THEN DictIncr(factors, temp) ELSE factors
    /\ pc' = "ret_factors"
    /\ UNCHANGED <<n, attrs, self_factors, phi_val, sigma_val, d, temp,
                   result, total, todo, caller, ret, seen, repeat>>

\* return factors; self._factors = ...; enter _calculate_phi: result = self.n
StoreFactors ==
    /\ pc = "ret_factors"
    /\ self_factors' = factors
    /\ attrs' = attrs \cup {"_factors"}
    /\ result' = PhiStart(n)
    /\ todo' = DOMAIN factors
    /\ pc' = "phi_loop"
    /\ UNCHANGED <<n, phi_val, sigma_val, factors, d, temp, total, caller, ret, seen, repeat>>

\* one iteration of `for p in self._factors.keys()`.  The mapping carries no
\* ordering requirement, so the key visited next is any key not yet visited;
\* the insertion order CPython follows is one of these orders.
PhiIter ==
    /\ pc = "phi_loop"
    /\ \E p \in todo :
        /\ result' = PhiUpdate(result, p)
        /\ todo' = todo \ {p}
    /\ UNCHANGED <<pc, n, attrs, self_factors, phi_val, sigma_val, factors, d, temp,
                   total, caller, ret, seen, repeat>>

\* return result; self.phi_val = ...; enter _calculate_sigma: total = 1
StorePhi ==
    /\ pc = "phi_loop"
    /\ todo = {}
    /\ phi_val' = result
    /\ attrs' = attrs \cup {"phi_val"}
    /\ total' = 1
    /\ todo' = DOMAIN self_factors
    /\ pc' = "sigma_loop"
    /\ UNCHANGED <<n, self_factors, sigma_val, factors, d, temp, result, caller, ret, seen, repeat>>

\* one iteration of `for p, a in self._factors.items()`
SigmaIter ==
    /\ pc = "sigma_loop"
    /\ \E p \in todo :
        /\ total' = total * SigmaTerm(p, self_factors[p])
        /\ todo' = todo \ {p}
    /\ UNCHANGED <<pc, n, attrs, self_factors, phi_val, sigma_val, factors, d, temp,
                   result, caller, ret, seen, repeat>>

\* return total; self.sigma_val = ...; __init__ returns and the caller holds
\* the instance
StoreSigma ==
    /\ pc = "sigma_loop"
    /\ todo = {}
    /\ sigma_val' = total
    /\ attrs' = attrs \cup {"sigma_val"}
    /\ caller' = "instance"
    /\ pc' = "ready"
    /\ UNCHANGED <<n, self_factors, phi_val, factors, d, temp, result, total, todo, ret, seen, repeat>>

\* ------------------------------------------------------------- properties
totient_density == TrueDiv(phi_val, n)

perfection_ratio == TrueDiv(sigma_val, n)

tpep_ratio == TrueDiv(sigma_val, phi_val)

mirror_gap == FloatAdd(perfection_ratio, totient_density)

\* report(): parity from n % 2, status from isclose(tpep_ratio, 4.0); the
\* three formatted ratios are renderings of the properties above
report ==
    IF tpep_ratio.exc # "none"
    THEN [exc |-> tpep_ratio.exc, parity |-> "", status |-> ""]
    ELSE [exc |-> "none", parity |-> Parity(n),
          status |-> Status(IsClose(tpep_ratio, StabilityTarget))]

\* (a read that recomputes the cached totient from the cached value)
ReturnRecompute(name, value) ==
    /\ pc = "ready"
    /\ caller = "instance"
    /\ ret' = [name |-> name, value |-> value]
    /\ seen' = [seen EXCEPT ![name] = @ \cup {value}]
    /\ repeat' = (seen[name] # {})
    /\ phi_val' = CalculatePhi(phi_val, self_factors)
    /\ UNCHANGED <<pc, n, attrs, self_factors, sigma_val,
                   factors, d, temp, result, total, todo, caller>>

\* a read through the caller's instance: nothing of the instance is assigned
Return(name, value) ==
    /\ pc = "ready"
    /\ caller = "instance"
    /\ ret' = [name |-> name, value |-> value]
    /\ seen' = [seen EXCEPT ![name] = @ \cup {value}]
    /\ repeat' = (seen[name] # {})
    /\ UNCHANGED <<pc, n, attrs, self_factors, phi_val, sigma_val,
                   factors, d, temp, result, total, todo, caller>>

ReadTotientDensity == Return("totient_density", totient_density)

ReadPerfectionRatio == Return("perfection_ratio", perfection_ratio)

ReadTpepRatio == Return("tpep_ratio", tpep_ratio)

ReadMirrorGap == Return("mirror_gap", mirror_gap)

ReadReport == Return("report", report)

Next ==
    \/ Construct
    \/ OuterTest
    \/ InnerTest
    \/ TailRecord
    \/ StoreFactors
    \/ PhiIter
    \/ StorePhi
    \/ SigmaIter
    \/ StoreSigma
    \/ ReadTotientDensity
    \/ ReadPerfectionRatio
    \/ ReadTpepRatio
    \/ ReadMirrorGap
    \/ ReadReport

Spec == Init /\ [][Next]_vars

TypeOK ==
    /\ pc \in {"new", "raised", "outer", "inner", "tail", "ret_factors",
               "phi_loop", "sigma_loop", "ready"}
    /\ n \in Int
    /\ attrs \subseteq AllAttrs
    /\ caller \in {"none", "ValueError", "instance"}

\* ------------------------------------------------- reference definitions
IsPrime(p) == p >= 2 /\ \A k \in 2..(p - 1) : p % k # 0

RECURSIVE ProductOver(_, _)
ProductOver(F, keys) ==
    IF keys = {} THEN 1
    ELSE LET p == MinOf(keys) IN (p ^ F[p]) * ProductOver(F, keys \ {p})

Coprimes(m) == {k \in 1..m : GCD(k, m) = 1}

Divisors(m) == {k \in 1..m : m % k = 0}

RECURSIVE SumOf(_)
SumOf(S) == IF S = {} THEN 0 ELSE LET x == MinOf(S) IN x + SumOf(S \ {x})

Phi(m) == CalculatePhi(m, GetPrimeFactors(m))

Sigma(m) == CalculateSigma(GetPrimeFactors(m))

InFactorization == pc \in {"outer", "inner", "tail", "ret_factors"}

\* ------------------------------------------------------------------ claims

\* C1: the factor mapping stored by construction is the prime factorization
\* of n: the product of p^exponent over its entries is n, every key is a
\* prime >= 2, every exponent is >= 1, and for n = 1 the mapping is empty.
C1_Factorization ==
    "_factors" \in attrs =>
        /\ ProductOver(self_factors, DOMAIN self_factors) = n
        /\ \A p \in DOMAIN self_factors : IsPrime(p) /\ self_factors[p] >= 1
        /\ (n = 1 => self_factors = EmptyDict)

C1_Witness ==
    /\ pc = "ready"
    /\ n = 945
    /\ DOMAIN self_factors = {3, 5, 7}
    /\ self_factors[3] = 3 /\ self_factors[5] = 1 /\ self_factors[7] = 1

\* C2: the phi value computed at construction equals the number of integers
\* k in [1, n] with gcd(k, n) = 1.
C2_PhiIsTotient ==
    "phi_val" \in attrs => phi_val = Cardinality(Coprimes(n))

C2_Witness == pc = "ready" /\ n = 28 /\ phi_val = 12

\* C3: the sigma value computed at construction equals the sum of all
\* positive divisors of n, n included.
C3_SigmaIsDivisorSum ==
    "sigma_val" \in attrs => sigma_val = SumOf(Divisors(n))

C3_Witness == pc = "ready" /\ n = 28 /\ sigma_val = 56

\* C4: construction with n < 1 raises ValueError before any factorization,
\* phi or sigma is computed and the caller never obtains an instance; with
\* n >= 1 construction never raises and the instance the caller obtains has
\* factors, phi and sigma all set.
C4_ConstructionAllOrNothing ==
    /\ (pc # "new" /\ n < 1) =>
          /\ pc = "raised"
          /\ caller = "ValueError"
          /\ attrs = {"n"}
          /\ factors = EmptyDict /\ d = 0 /\ result = 0 /\ total = 0
    /\ (pc # "new" /\ n >= 1) => (pc # "raised" /\ caller # "ValueError")
    /\ pc = "ready" => caller = "instance"
    /\ caller = "instance" => (n >= 1 /\ attrs = AllAttrs)

C4_Witness == pc = "raised" /\ n = 0 /\ caller = "ValueError" /\ attrs = {"n"}

C6_Ranges ==
    pc = "ready" =>
        /\ 1 <= phi_val /\ phi_val <= n
        /\ sigma_val >= n
        /\ (n = 1 => phi_val = 1 /\ sigma_val = 1)
        /\ \A v \in seen["tpep_ratio"] \cup seen["report"] : v.exc = "none"

C6_Witness ==
    /\ pc = "ready"
    /\ n = 1
    /\ ret = [name |-> "tpep_ratio", value |-> [exc |-> "none", num |-> 1, den |-> 1]]

\* C7: for all a, b >= 1 with gcd(a, b) = 1, the analyzer constructed for
\* a * b has phi = phi(a) * phi(b) and sigma = sigma(a) * sigma(b), phi(.)
\* and sigma(.) being the values computed for a and for b.
C7_Multiplicative ==
    pc = "ready" =>
        \A a \in Divisors(n) :
            LET b == n \div a IN
            GCD(a, b) = 1 =>
                /\ phi_val = Phi(a) * Phi(b)
                /\ sigma_val = Sigma(a) * Sigma(b)

C7_Witness ==
    /\ pc = "ready"
    /\ n = 36
    /\ GCD(4, 9) = 1
    /\ Phi(4) = 2 /\ Phi(9) = 6 /\ phi_val = 12
    /\ Sigma(4) = 7 /\ Sigma(9) = 13 /\ sigma_val = 91

\* C8: once construction has succeeded, no access to totient_density,
\* perfection_ratio, tpep_ratio, mirror_gap or report changes n, the factor
\* mapping, phi or sigma, and all reads of one metric return one value.
C8_ReadOnly ==
    /\ [][pc = "ready" =>
            /\ UNCHANGED <<n, attrs, self_factors, phi_val, sigma_val>>
            /\ pc' = "ready"]_vars
    /\ [](\A m \in Metrics : Cardinality(seen[m]) <= 1)

C8_Witness ==
    /\ repeat
    /\ ret.name = "mirror_gap"
    /\ \A m \in Metrics : seen[m] # {}

\* C9: in the totient loop, whichever key is visited next, the running
\* result is divisible by it, so result * (p - 1) // p loses nothing.
C9_ExactDivision ==
    pc = "phi_loop" =>
        \A p \in todo :
            /\ result % p = 0
            /\ PhiUpdate(result, p) * p = result * (p - 1)

C9_Witness == pc = "phi_loop" /\ n = 945 /\ todo = {3} /\ result = 648

\* C10: when the trial-division loop exits with temp > 1, temp is a prime
\* greater than every key recorded so far, and it is then recorded with
\* exponent exactly 1; for n = 1 the loop body never runs, temp is 1 and
\* nothing is recorded.
C10_TailPrime ==
    /\ (pc = "tail" /\ temp > 1) =>
          /\ IsPrime(temp)
          /\ \A k \in DOMAIN factors : k < temp
    /\ (pc = "ret_factors" /\ temp > 1) =>
          /\ temp \in DOMAIN factors
          /\ factors[temp] = 1
          /\ \A k \in DOMAIN factors : k <= temp
    /\ (InFactorization /\ n = 1) =>
          /\ pc # "inner"
          /\ d = StartD /\ temp = 1
          /\ factors = EmptyDict

C10_Witness ==
    /\ pc = "ret_factors"
    /\ n = 8128
    /\ temp = 127
    /\ DOMAIN factors = {2, 127}
    /\ factors[127] = 1

====
